---------------------------- MODULE Spec2Model ----------------------------
(***************************************************************************)
(* klogger: a serial-line logger for kernels (src/src/lib.rs).             *)
(*                                                                         *)
(* Strings are sequences of tokens.  A token stands for a fixed run of     *)
(* bytes: a single character ("c", "m", "=", ",", "/", " "), a level word  *)
(* ("info", "DEBUG", ...) or LONG, a run of 65 bytes "x".  No token is a   *)
(* prefix of another one, so splitting at a separator, trimming, prefix    *)
(* tests and byte lengths on token sequences are those of the strings.     *)
(***************************************************************************)
EXTENDS Integers, Sequences, FiniteSets, TLC

VARIABLES
    LOGGER,             \* static mut LOGGER: KLogger
    log_state,          \* the log crate's logger cell, written by set_logger
    max_level,          \* the log crate's max level, written by set_max_level
    SERIAL_LINE_MUTEX,  \* the context that holds the line lock, or Free
    SERIAL_PRINT_PORT,  \* the port set_output selected
    hw,                 \* what cpuid reports: the counter and its frequency
    tsc,                \* the cycle counter, read by get_timestamp
    pc,                 \* where each context stands
    op,                 \* the call each context is in, if any
    last,               \* the call the latest step returned from, if any
    rest,               \* the entries parse_args has yet to visit, per context
    line,               \* the channel: the bytes of the line not yet ended
    snap,               \* LOGGER and max level as the last call of init began
    inits,              \* the calls of init so far
    shown,              \* the time of the latest log record on the channel
    probe               \* the last call of a function under test, with its result

----------------------------------------------------------------------------
(* Option<T>: None is the empty sequence, Some(x) the one-element sequence *)
None == <<>>
Some(x) == <<x>>
IsSome(o) == o # <<>>
Unwrap(o) == o[1]

----------------------------------------------------------------------------
(* log::LevelFilter and log::Level, as their usize discriminants *)
Off == 0
Error == 1
Warn == 2
Info == 3
Debug == 4
Trace == 5
LevelFilters == Off..Trace
Levels == Error..Trace
\* LevelFilter::max()
LevelFilterMax == Trace

\* heapless capacities of Directive.name and KLogger.filter
NameCap == 64
FilterCap == 8

----------------------------------------------------------------------------
(* str *)
LONG == "LONG"
LevelWords == {"off", "error", "warn", "info", "debug", "trace", "DEBUG"}

\* s.len(): the length in bytes
TokLen(t) ==
    CASE t = LONG -> 65
      [] t \in {"off"} -> 3
      [] t \in {"warn", "info"} -> 4
      [] t \in {"error", "debug", "trace", "DEBUG"} -> 5
      [] OTHER -> 1

RECURSIVE ByteLen(_)
ByteLen(s) == IF s = <<>> THEN 0 ELSE TokLen(Head(s)) + ByteLen(Tail(s))

\* target.starts_with(name)
StartsWith(target, name) ==
    /\ Len(name) <= Len(target)
    /\ SubSeq(target, 1, Len(name)) = name

\* s.split(ch), collected: always at least one part
RECURSIVE SplitFrom(_, _, _)
SplitFrom(s, ch, cur) ==
    IF s = <<>> THEN <<cur>>
    ELSE IF Head(s) = ch THEN <<cur>> \o SplitFrom(Tail(s), ch, <<>>)
    ELSE SplitFrom(Tail(s), ch, Append(cur, Head(s)))

Split(s, ch) == SplitFrom(s, ch, <<>>)

\* s.trim()
RECURSIVE TrimStart(_)
TrimStart(s) ==
    IF s # <<>> /\ Head(s) = " " THEN TrimStart(Tail(s)) ELSE s

RECURSIVE TrimEnd(_)
TrimEnd(s) ==
    IF s # <<>> /\ s[Len(s)] = " " THEN TrimEnd(SubSeq(s, 1, Len(s) - 1)) ELSE s

Trim(s) == TrimEnd(TrimStart(s))

\* <LevelFilter as FromStr>::from_str: a level name, in any case
LevelOfWord(t) ==
    CASE t = "off" -> Off
      [] t = "error" -> Error
      [] t = "warn" -> Warn
      [] t = "info" -> Info
      [] t \in {"debug", "DEBUG"} -> Debug
      [] t = "trace" -> Trace

ParseLevelFilter(s) ==
    IF Len(s) = 1 /\ s[1] \in LevelWords THEN Some(LevelOfWord(s[1])) ELSE None

----------------------------------------------------------------------------
(* Directive and the filter engine *)
Directive(name, level) == [name |-> name, level |-> level]

\* the match in `enabled`: does the directive decide for target?
DirectiveMatches(d, target) ==
    ~IsSome(d.name) \/ StartsWith(target, Unwrap(d.name))

\* enabled, scanning directives[1..n] from the back
RECURSIVE EnabledFrom(_, _, _, _)
EnabledFrom(directives, n, level, target) ==
    IF n = 0 THEN FALSE
    ELSE IF DirectiveMatches(directives[n], target)
         THEN level <= directives[n].level
         ELSE EnabledFrom(directives, n - 1, level, target)

\* mutants of `enabled`: allow when nothing matches; `<` for `<=`; scan from
\* the front
enabled_default_allow(directives, level, target) ==
    IF \A i \in 1..Len(directives) : ~DirectiveMatches(directives[i], target)
    THEN TRUE
    ELSE EnabledFrom(directives, Len(directives), level, target)

RECURSIVE EnabledStrictFrom(_, _, _, _)
EnabledStrictFrom(directives, n, level, target) ==
    IF n = 0 THEN FALSE
    ELSE IF DirectiveMatches(directives[n], target)
         THEN level < directives[n].level
         ELSE EnabledStrictFrom(directives, n - 1, level, target)

enabled_strict(directives, level, target) ==
    EnabledStrictFrom(directives, Len(directives), level, target)

RECURSIVE EnabledForward(_, _, _)
EnabledForward(directives, level, target) ==
    IF directives = <<>> THEN FALSE
    ELSE IF DirectiveMatches(Head(directives), target)
         THEN level <= Head(directives).level
         ELSE EnabledForward(Tail(directives), level, target)

enabled_first_match(directives, level, target) ==
    EnabledForward(directives, level, target)

\* fn enabled(directives, level, target)
enabled(directives, level, target) ==
    EnabledFrom(directives, Len(directives), level, target)

\* KLogger::filter: the maximum level of the directives
RECURSIVE MaxLevelOf(_)
MaxLevelOf(directives) ==
    IF directives = <<>> THEN Off
    ELSE LET m == MaxLevelOf(Tail(directives))
         IN IF Head(directives).level > m THEN Head(directives).level ELSE m

\* mutant of KLogger_filter: the level of the first directive
KLogger_filter_first(self) ==
    IF self.filter = <<>> THEN Off ELSE self.filter[1].level

KLogger_filter(self) == MaxLevelOf(self.filter)

----------------------------------------------------------------------------
(* parse_args *)
EntrySkip == [kind |-> "skip", level |-> Off, name |-> None]
EntryDiag == [kind |-> "diag", level |-> Off, name |-> None]
EntryDir(level, name) == [kind |-> "dir", level |-> level, name |-> name]

\* mutant of ParseEntry: a bare token is always a target, never a level
ParseEntry_bare_is_target(s) ==
    IF ByteLen(s) = 0 THEN EntrySkip
    ELSE LET parts == Split(s, "=")
         IN CASE Len(parts) = 1 -> EntryDir(LevelFilterMax, Some(parts[1]))
              [] Len(parts) = 2 ->
                   LET part1 == Trim(parts[2])
                       num == ParseLevelFilter(part1)
                   IN IF part1 = <<>> THEN EntryDir(LevelFilterMax, Some(parts[1]))
                      ELSE IF IsSome(num) THEN EntryDir(Unwrap(num), Some(parts[1]))
                      ELSE EntryDiag
              [] OTHER -> EntryDiag

\* one iteration of the loop over m.split(','), up to the push
ParseEntry(s) ==
    IF ByteLen(s) = 0 THEN EntrySkip
    ELSE LET parts == Split(s, "=")
         IN CASE Len(parts) = 1 ->
                   LET num == ParseLevelFilter(parts[1])
                   IN IF IsSome(num) THEN EntryDir(Unwrap(num), None)
                      ELSE EntryDir(LevelFilterMax, Some(parts[1]))
              [] Len(parts) = 2 ->
                   LET part1 == Trim(parts[2])
                       num == ParseLevelFilter(part1)
                   IN IF part1 = <<>> THEN EntryDir(LevelFilterMax, Some(parts[1]))
                      ELSE IF IsSome(num) THEN EntryDir(Unwrap(num), Some(parts[1]))
                      ELSE EntryDiag
              [] OTHER -> EntryDiag

\* String::from(name) for heapless::String<64> panics on a longer name
NameTooLong(name) == IsSome(name) /\ ByteLen(Unwrap(name)) > NameCap

\* mutant of ParseRun: a malformed entry ends the loop (`return` for
\* `continue`)
RECURSIVE ParseRun_diag_returns(_, _)
ParseRun_diag_returns(filter, entries) ==
    IF entries = <<>> THEN [filter |-> filter, rest |-> <<>>, stop |-> "end"]
    ELSE LET e == ParseEntry(Head(entries))
         IN CASE e.kind = "skip" -> ParseRun_diag_returns(filter, Tail(entries))
              [] e.kind = "diag" ->
                   [filter |-> filter, rest |-> <<>>, stop |-> "diag"]
              [] OTHER ->
                   IF NameTooLong(e.name)
                   THEN [filter |-> filter, rest |-> Tail(entries), stop |-> "panic"]
                   ELSE IF Len(filter) < FilterCap
                   THEN ParseRun_diag_returns(Append(filter, Directive(e.name, e.level)),
                                              Tail(entries))
                   ELSE [filter |-> filter, rest |-> Tail(entries), stop |-> "diag"]

\* mutant of ParseRun: a directive sequence without a capacity
RECURSIVE ParseRun_no_capacity(_, _)
ParseRun_no_capacity(filter, entries) ==
    IF entries = <<>> THEN [filter |-> filter, rest |-> <<>>, stop |-> "end"]
    ELSE LET e == ParseEntry(Head(entries))
         IN CASE e.kind = "skip" -> ParseRun_no_capacity(filter, Tail(entries))
              [] e.kind = "diag" ->
                   [filter |-> filter, rest |-> Tail(entries), stop |-> "diag"]
              [] OTHER ->
                   IF NameTooLong(e.name)
                   THEN [filter |-> filter, rest |-> Tail(entries), stop |-> "panic"]
                   ELSE ParseRun_no_capacity(Append(filter, Directive(e.name, e.level)),
                                             Tail(entries))

\* The loop of parse_args over `entries`, run up to its next diagnostic
\* (stop = "diag", with the entries left), a panic, or the end.
RECURSIVE ParseRun(_, _)
ParseRun(filter, entries) ==
    IF entries = <<>> THEN [filter |-> filter, rest |-> <<>>, stop |-> "end"]
    ELSE LET e == ParseEntry(Head(entries))
         IN CASE e.kind = "skip" -> ParseRun(filter, Tail(entries))
              [] e.kind = "diag" ->
                   [filter |-> filter, rest |-> Tail(entries), stop |-> "diag"]
              [] OTHER ->
                   IF NameTooLong(e.name)
                   THEN [filter |-> filter, rest |-> Tail(entries), stop |-> "panic"]
                   ELSE IF Len(filter) < FilterCap
                   THEN ParseRun(Append(filter, Directive(e.name, e.level)),
                                 Tail(entries))
                   ELSE [filter |-> filter, rest |-> Tail(entries), stop |-> "diag"]

\* mutant of SpecRejected: the check for '/' is missing
SpecRejected_never(spec) == FALSE

\* the entries parse_args loops over; a '/' leaves none and one diagnostic
SpecRejected(spec) == Len(Split(spec, "/")) >= 2

SpecEntries(spec) ==
    IF SpecRejected(spec) THEN <<>> ELSE Split(Split(spec, "/")[1], ",")

RECURSIVE ParseAll(_, _, _)
ParseAll(filter, entries, diags) ==
    LET r == ParseRun(filter, entries)
    IN IF r.stop = "diag" THEN ParseAll(r.filter, r.rest, diags + 1)
       ELSE [filter |-> r.filter, diags |-> diags, panic |-> r.stop = "panic"]

\* parse_args(filter, spec), run to its return or its panic
parse_args(filter, spec) ==
    IF SpecRejected(spec)
    THEN [filter |-> filter, diags |-> 1, panic |-> FALSE]
    ELSE ParseAll(filter, SpecEntries(spec), 0)

----------------------------------------------------------------------------
(* KLogger::elapsed *)
NS_PER_SEC == 1000000000

Undetermined == [kind |-> "Undetermined", val |-> 0]
Nanoseconds(ns) == [kind |-> "Nanoseconds", val |-> ns]
Cycles(cycles) == [kind |-> "Cycles", val |-> cycles]

\* elapsed(&self), with `cur` the value get_timestamp returns in it
elapsed(self, cur) ==
    IF self.has_tsc
    THEN IF self.has_invariant_tsc /\ IsSome(self.tsc_frequency)
         THEN LET elapsed_cycles == cur - self.tsc_start
                  ns == elapsed_cycles
              IN Nanoseconds(ns)
         ELSE Cycles(cur)
    ELSE Undetermined

----------------------------------------------------------------------------
(* static mut LOGGER, as the program starts *)
LOGGER0 ==
    [has_tsc |-> FALSE, has_invariant_tsc |-> FALSE, tsc_start |-> 0,
     tsc_frequency |-> None, filter |-> <<>>]

----------------------------------------------------------------------------
(* The program: contexts (cores, interrupt handlers) that call init, log   *)
(* records and use Writer themselves.  A call runs in one step up to the   *)
(* next point where it can wait (SERIAL_LINE_MUTEX.lock()).  init runs     *)
(* while no other context is in init or in a log call, and a log call runs *)
(* while no context is in init: LOGGER is a static mut without a lock, and *)
(* the embedding kernel has to order these calls.                          *)
NumCtx == 2
MaxWrites == 1

\* the calls of init: the first one and a second one
InitCalls == {1, 2}
\* the values of the counter: as the program starts, and one tick later
TscValues == 0..1

Ctx == 1..NumCtx
Free == 0
WriterFns == {"get", "get_module"}

\* the specs init is called with: a global level; an entry with an unknown
\* level, then a target; a spec with a '/'; a target of 65 bytes
InitSpecs ==
    { <<"info">>,
      <<"c", "=", "c", ",", "c">>,
      <<"c", "/">>,
      <<LONG>> }
\* COM2; SERIAL_PRINT_PORT starts as COM1
Ports == {760}
LogLevels == {Info, Debug}
LogTargets == {<<"c">>, <<"m">>}

\* cpuid: has_tsc, has_invariant_tsc, get_tsc_frequency_hz and
\* get_vmm_tsc_frequency_hz, on machines without a counter, with a counter
\* that is not invariant, without a known frequency, with the frequency from
\* cpuid and with the one from the hypervisor
Hw(has_tsc, has_invariant_tsc, tsc_hz, vmm_hz) ==
    [has_tsc |-> has_tsc, has_invariant_tsc |-> has_invariant_tsc,
     tsc_hz |-> tsc_hz, vmm_hz |-> vmm_hz]

HwConfigs ==
    { Hw(FALSE, FALSE, None, None),
      Hw(TRUE, FALSE, Some(2000000000), None),
      Hw(TRUE, TRUE, None, None),
      Hw(TRUE, TRUE, Some(2000000000), Some(1000000)),
      Hw(TRUE, TRUE, None, Some(1000000)) }

NoOp == [name |-> "none", cur |-> 0, time |-> Undetermined, writes |-> 0]
Called(name) == [NoOp EXCEPT !.name = name]
\* what the latest step returned, if it was the return of a call; for a
\* dropped Writer, with the line it ended
Returned(c, name, result) == [c |-> c, name |-> name, result |-> result, line |-> <<>>]
NoReturn == Returned(0, "none", "none")
NoSnap == [LOGGER |-> LOGGER0, max_level |-> Off, installed |-> FALSE]
NoProbe == [fn |-> "none"]

vars == <<LOGGER, log_state, max_level, SERIAL_LINE_MUTEX, SERIAL_PRINT_PORT,
          hw, tsc, pc, op, last, rest, line, snap, inits, shown, probe>>
progvars == <<log_state, max_level, SERIAL_LINE_MUTEX, SERIAL_PRINT_PORT,
              hw, tsc, pc, op, last, rest, line, snap, inits, shown>>

\* the program before any call, on a machine without a counter
ProgIdle ==
    /\ log_state = "UNINITIALIZED"
    /\ max_level = Off
    /\ SERIAL_LINE_MUTEX = Free
    /\ SERIAL_PRINT_PORT = 1016
    /\ hw = [has_tsc |-> FALSE, has_invariant_tsc |-> FALSE,
             tsc_hz |-> None, vmm_hz |-> None]
    /\ tsc = 0
    /\ pc = [c \in Ctx |-> "idle"]
    /\ op = [c \in Ctx |-> NoOp]
    /\ last = NoReturn
    /\ rest = [c \in Ctx |-> <<>>]
    /\ line = <<>>
    /\ snap = NoSnap
    /\ inits = 0
    /\ shown = None

Init ==
    /\ LOGGER = LOGGER0
    /\ log_state = "UNINITIALIZED"
    /\ max_level = Off
    /\ SERIAL_LINE_MUTEX = Free
    /\ SERIAL_PRINT_PORT = 1016
    /\ hw \in HwConfigs
    /\ tsc = 0
    /\ pc = [c \in Ctx |-> "idle"]
    /\ op = [c \in Ctx |-> NoOp]
    /\ last = NoReturn
    /\ rest = [c \in Ctx |-> <<>>]
    /\ line = <<>>
    /\ snap = NoSnap
    /\ inits = 0
    /\ shown = None
    /\ probe = NoProbe

InInit(c) == op[c].name = "init"
InLog(c) == op[c].name = "log"

\* arch::puts through a Writer: bytes of context c on the channel
Put(c, kind) == Append(line, [by |-> c, kind |-> kind])

\* rdtsc: the counter runs
Tick ==
    /\ tsc + 1 \in TscValues
    /\ tsc' = tsc + 1
    /\ last' = NoReturn
    /\ UNCHANGED <<LOGGER, log_state, max_level, SERIAL_LINE_MUTEX,
                   SERIAL_PRINT_PORT, hw, pc, op, rest, line, snap, inits, shown, probe>>

\* init, from the loop of parse_args on: parse up to the next diagnostic
\* (sprintln!, which takes the line lock), the panic, or the end of the
\* loop, where log::set_logger installs LOGGER, or refuses, and init returns
ParseOn(c, logger, entries) ==
    LET r == ParseRun(logger.filter, entries)
        parsed == [logger EXCEPT !.filter = r.filter]
    IN /\ LOGGER' = parsed
       /\ rest' = [rest EXCEPT ![c] = r.rest]
       /\ CASE r.stop = "diag" ->
                 /\ pc' = [pc EXCEPT ![c] = "spin"]
                 /\ op' = [op EXCEPT ![c] = Called("init")]
                 /\ last' = NoReturn
                 /\ UNCHANGED <<log_state, max_level>>
            [] r.stop = "panic" ->
                 /\ pc' = [pc EXCEPT ![c] = "panic"]
                 /\ op' = [op EXCEPT ![c] = NoOp]
                 /\ last' = Returned(c, "init", "panic")
                 /\ UNCHANGED <<log_state, max_level>>
            [] OTHER ->
                 /\ pc' = [pc EXCEPT ![c] = "idle"]
                 /\ op' = [op EXCEPT ![c] = NoOp]
                 /\ IF log_state = "UNINITIALIZED"
                    THEN /\ log_state' = "INITIALIZED"
                         /\ max_level' = KLogger_filter(parsed)
                         /\ last' = Returned(c, "init", "Ok")
                    ELSE /\ last' = Returned(c, "init", "Err")
                         /\ UNCHANGED <<log_state, max_level>>

\* pub fn init(args, output_indicator)
init(c, args, output_indicator) ==
    /\ pc[c] = "idle"
    /\ inits + 1 \in InitCalls
    /\ \A d \in Ctx : ~InInit(d) /\ ~InLog(d)
    /\ inits' = inits + 1
    /\ snap' = [LOGGER |-> LOGGER, max_level |-> max_level,
                installed |-> log_state = "INITIALIZED"]
    /\ SERIAL_PRINT_PORT' = output_indicator
    /\ LET probed ==
              [LOGGER EXCEPT
                 !.has_tsc = hw.has_tsc,
                 !.has_invariant_tsc = hw.has_invariant_tsc,
                 !.tsc_start = IF hw.has_tsc THEN tsc ELSE @,
                 !.tsc_frequency = IF IsSome(hw.tsc_hz) THEN hw.tsc_hz
                                   ELSE IF IsSome(hw.vmm_hz) THEN hw.vmm_hz
                                   ELSE @]
       IN IF SpecRejected(args)
          THEN /\ LOGGER' = probed
               /\ rest' = [rest EXCEPT ![c] = <<>>]
               /\ pc' = [pc EXCEPT ![c] = "spin"]
               /\ op' = [op EXCEPT ![c] = Called("init")]
               /\ last' = NoReturn
               /\ UNCHANGED <<log_state, max_level>>
          ELSE ParseOn(c, probed, SpecEntries(args))
    /\ UNCHANGED <<SERIAL_LINE_MUTEX, hw, tsc, line, shown, probe>>

\* init after a diagnostic of parse_args was printed
InitResume(c) ==
    /\ pc[c] = "parsing"
    /\ ParseOn(c, LOGGER, rest[c])
    /\ UNCHANGED <<SERIAL_LINE_MUTEX, SERIAL_PRINT_PORT, hw, tsc, line, snap,
                   inits, shown, probe>>

\* a context calls Writer::get() or Writer::get_module()
WriterGet(c, fn) ==
    /\ pc[c] = "idle"
    /\ pc' = [pc EXCEPT ![c] = "spin"]
    /\ op' = [op EXCEPT ![c] = Called(fn)]
    /\ last' = NoReturn
    /\ UNCHANGED <<LOGGER, log_state, max_level, SERIAL_LINE_MUTEX,
                   SERIAL_PRINT_PORT, hw, tsc, rest, line, snap, inits, shown, probe>>

\* a lock that lets a context in while another one holds it
Lock_no_exclusion(c) ==
    /\ pc[c] = "spin"
    /\ SERIAL_LINE_MUTEX' = c
    /\ pc' = [pc EXCEPT ![c] = IF op[c].name \in WriterFns THEN "held" ELSE "fmt"]
    /\ line' = IF op[c].name = "get_module" THEN Put(c, "text") ELSE line
    /\ last' = NoReturn
    /\ UNCHANGED <<LOGGER, log_state, max_level, SERIAL_PRINT_PORT, hw, tsc,
                   op, rest, snap, inits, shown, probe>>

\* SERIAL_LINE_MUTEX.lock() returns: the Writer exists; get_module writes
\* "[module] " before it returns
Lock(c) ==
    /\ pc[c] = "spin"
    /\ SERIAL_LINE_MUTEX = Free
    /\ SERIAL_LINE_MUTEX' = c
    /\ pc' = [pc EXCEPT ![c] = IF op[c].name \in WriterFns THEN "held" ELSE "fmt"]
    /\ line' = IF op[c].name = "get_module" THEN Put(c, "text") ELSE line
    /\ last' = NoReturn
    /\ UNCHANGED <<LOGGER, log_state, max_level, SERIAL_PRINT_PORT, hw, tsc,
                   op, rest, snap, inits, shown, probe>>

\* write_str on the Writer a context obtained itself
Write(c) ==
    /\ pc[c] = "held"
    /\ op[c].name \in WriterFns
    /\ op[c].writes < MaxWrites
    /\ line' = Put(c, "text")
    /\ op' = [op EXCEPT ![c].writes = @ + 1]
    /\ last' = NoReturn
    /\ UNCHANGED <<LOGGER, log_state, max_level, SERIAL_LINE_MUTEX,
                   SERIAL_PRINT_PORT, hw, tsc, pc, rest, snap, inits, shown, probe>>

\* sprintln!: with its Writer obtained, the arguments are evaluated (for a
\* log record: self.elapsed()) and written
Format(c) ==
    /\ pc[c] = "fmt"
    /\ pc' = [pc EXCEPT ![c] = "held"]
    /\ line' = Put(c, "text")
    /\ op' = [op EXCEPT ![c].writes = @ + 1,
                        ![c].cur = IF op[c].name = "log" THEN tsc ELSE @,
                        ![c].time = IF op[c].name = "log"
                                    THEN elapsed(LOGGER, tsc) ELSE @]
    /\ shown' = IF op[c].name = "log" THEN Some(elapsed(LOGGER, tsc)) ELSE shown
    /\ last' = NoReturn
    /\ UNCHANGED <<LOGGER, log_state, max_level, SERIAL_LINE_MUTEX,
                   SERIAL_PRINT_PORT, hw, tsc, rest, snap, inits, probe>>

\* mutant of Drop: the line is ended and the lock is kept
Drop_keeps_lock(c) ==
    /\ pc[c] = "held"
    /\ line' = <<>>
    /\ pc' = [pc EXCEPT ![c] = IF op[c].name = "init" THEN "parsing" ELSE "idle"]
    /\ op' = [op EXCEPT ![c] = IF op[c].name = "init" THEN Called("init") ELSE NoOp]
    /\ last' = [Returned(c, IF op[c].name = "init" THEN "sprintln" ELSE op[c].name,
                         "done") EXCEPT !.line = Put(c, "crlf")]
    /\ UNCHANGED <<LOGGER, log_state, max_level, SERIAL_LINE_MUTEX,
                   SERIAL_PRINT_PORT, hw, tsc, rest, snap, inits, shown, probe>>

\* Drop for Writer: "\r\n", and the guard releases the lock; the channel is
\* at the start of a line again
Drop(c) ==
    /\ pc[c] = "held"
    /\ line' = <<>>
    /\ SERIAL_LINE_MUTEX' = Free
    /\ pc' = [pc EXCEPT ![c] = IF op[c].name = "init" THEN "parsing" ELSE "idle"]
    /\ op' = [op EXCEPT ![c] = IF op[c].name = "init" THEN Called("init") ELSE NoOp]
    /\ last' = [Returned(c, IF op[c].name = "init" THEN "sprintln" ELSE op[c].name,
                         "done") EXCEPT !.line = Put(c, "crlf")]
    /\ UNCHANGED <<LOGGER, log_state, max_level, SERIAL_PRINT_PORT, hw, tsc,
                   rest, snap, inits, shown, probe>>

\* log!(target, level, ...): the macro's max-level gate, the installed
\* logger, and KLogger::log up to sprintln!
log(c, level, target) ==
    /\ pc[c] = "idle"
    /\ \A d \in Ctx : ~InInit(d)
    /\ LET passed == /\ level <= max_level
                     /\ log_state = "INITIALIZED"
                     /\ enabled(LOGGER.filter, level, target)
       IN /\ op' = [op EXCEPT ![c] = IF passed THEN Called("log") ELSE NoOp]
          /\ last' = IF passed THEN NoReturn ELSE Returned(c, "log", "rejected")
          /\ pc' = [pc EXCEPT ![c] = IF passed THEN "spin" ELSE "idle"]
    /\ UNCHANGED <<LOGGER, log_state, max_level, SERIAL_LINE_MUTEX,
                   SERIAL_PRINT_PORT, hw, tsc, rest, line, snap, inits, shown, probe>>

Next ==
    \/ Tick
    \/ \E c \in Ctx, args \in InitSpecs, port \in Ports : init(c, args, port)
    \/ \E c \in Ctx : InitResume(c)
    \/ \E c \in Ctx, fn \in WriterFns : WriterGet(c, fn)
    \/ \E c \in Ctx : Lock(c)
    \/ \E c \in Ctx : Write(c)
    \/ \E c \in Ctx : Format(c)
    \/ \E c \in Ctx : Drop(c)
    \/ \E c \in Ctx, level \in LogLevels, target \in LogTargets : log(c, level, target)

Spec == Init /\ [][Next]_vars

----------------------------------------------------------------------------
(* Writer and WriterNoDrop under test: contexts that write lines through   *)
(* Writer::get and Writer::get_module, and contexts that write through     *)
(* WriterNoDrop, which takes no lock and ends no line.                     *)
MaxNoDrop == 1

NoDrops(bytes) == Cardinality({i \in 1..Len(bytes) : bytes[i].kind = "nodrop"})

\* mutant of NoDropWrite: a writer that waits for the line lock
NoDropWrite_waits(c) ==
    /\ pc[c] = "idle"
    /\ SERIAL_LINE_MUTEX = Free
    /\ NoDrops(line) < MaxNoDrop
    /\ line' = Put(c, "nodrop")
    /\ last' = Returned(c, "WriterNoDrop", "done")
    /\ UNCHANGED <<LOGGER, log_state, max_level, SERIAL_LINE_MUTEX,
                   SERIAL_PRINT_PORT, hw, tsc, pc, op, rest, snap, inits, shown, probe>>

\* WriterNoDrop::get() and write_str on it: arch::puts, whoever holds the
\* line lock
NoDropWrite(c) ==
    /\ pc[c] = "idle"
    /\ NoDrops(line) < MaxNoDrop
    /\ line' = Put(c, "nodrop")
    /\ last' = Returned(c, "WriterNoDrop", "done")
    /\ UNCHANGED <<LOGGER, log_state, max_level, SERIAL_LINE_MUTEX,
                   SERIAL_PRINT_PORT, hw, tsc, pc, op, rest, snap, inits, shown, probe>>

WInit ==
    /\ LOGGER = LOGGER0
    /\ ProgIdle
    /\ probe = NoProbe

WNext ==
    \/ \E c \in Ctx, fn \in WriterFns : WriterGet(c, fn)
    \/ \E c \in Ctx : Lock(c)
    \/ \E c \in Ctx : Write(c)
    \/ \E c \in Ctx : Drop(c)
    \/ \E c \in Ctx : NoDropWrite(c)

SpecWriters == WInit /\ [][WNext]_vars

\* C17: WriterNoDrop never blocks and takes no lock: a context that is in no
\* other call can write through it in every state of the line lock, also
\* while another context holds a Writer, and the step that writes its bytes
\* leaves the lock, and every context's position, as they were.
C17_NoDropNeverBlocks ==
    /\ [](\A c \in Ctx :
            (pc[c] = "idle" /\ NoDrops(line) < MaxNoDrop) => ENABLED NoDropWrite(c))
    /\ [][\A c \in Ctx :
            line' = Append(line, [by |-> c, kind |-> "nodrop"]) =>
                /\ SERIAL_LINE_MUTEX' = SERIAL_LINE_MUTEX
                /\ pc' = pc]_vars

\* C17 witness: context 2 wrote through WriterNoDrop while context 1 held a
\* Writer and had written on its line; the lock is still context 1's.
C17_Witness ==
    /\ last = Returned(2, "WriterNoDrop", "done")
    /\ pc[1] = "held"
    /\ SERIAL_LINE_MUTEX = 1
    /\ Len(line) = 2
    /\ line[1] = [by |-> 1, kind |-> "text"]
    /\ line[2] = [by |-> 2, kind |-> "nodrop"]

\* The same contexts under fair scheduling: a context that can take the
\* lock, or that holds a Writer, is not left behind forever.  Every context
\* runs (weak fairness of its step); spin::Mutex is a test-and-set lock and
\* promises no order among the contexts that spin on it.
SpecWritersFair ==
    /\ SpecWriters
    /\ \A c \in Ctx : WF_vars(Lock(c)) /\ WF_vars(Drop(c))

\* C22 as claimed: when every context that holds a Writer drops it, every
\* context that waits in Writer::get or Writer::get_module takes the line
\* lock in the end: no context spins forever.
C22_Original ==
    \A c \in Ctx : (pc[c] = "spin") ~> (pc[c] = "held")

----------------------------------------------------------------------------
(* Claims on init, Writer and elapsed, under Spec *)

\* C1 as claimed: when init is called again after a successful init and
\* returns, it returns an error, and the installed logger (directive sequence,
\* counter flags, epoch tsc_start, frequency) and the max-level ceiling are
\* what they were before the call.
C1_Original ==
    (last.name = "init" /\ last.result # "panic" /\ snap.installed) =>
        /\ last.result = "Err"
        /\ LOGGER = snap.LOGGER
        /\ max_level = snap.max_level

\* the contexts that have a Writer
Writers == {c \in Ctx : pc[c] \in {"fmt", "held"}}
OneSource(bytes) == \A i, j \in 1..Len(bytes) : bytes[i].by = bytes[j].by

\* C2: at most one Writer exists at any time, and the bytes on the channel
\* from the first byte of a Writer's line to its CR LF all come from that
\* one Writer: the bytes of the line not yet ended are the lock holder's,
\* and a line that was ended holds the bytes of the Writer that ended it.
C2_NoInterleaving ==
    /\ Cardinality(Writers) <= 1
    /\ \A c \in Writers : SERIAL_LINE_MUTEX = c
    /\ OneSource(line)
    /\ line # <<>> => line[1].by \in Writers
    /\ OneSource(last.line)
    /\ last.line # <<>> => last.line[1].by = last.c

\* C2 witness: a Writer from get_module ended its line of prefix, text and
\* CR LF while another context was waiting for the lock.
C2_Witness ==
    /\ last.name = "get_module"
    /\ Len(last.line) = 3
    /\ last.line[3].kind = "crlf"
    /\ \E d \in Ctx \ {last.c} : pc[d] = "spin"

RECURSIVE GCD(_, _)
GCD(a, b) == IF b = 0 THEN a ELSE GCD(b, a % b)

\* delta * 1_000_000_000 / frequency_hz, evaluated without overflow
NsOf(delta, frequency_hz) ==
    LET g == GCD(NS_PER_SEC, frequency_hz)
    IN (delta * (NS_PER_SEC \div g)) \div (frequency_hz \div g)

\* C10 as claimed: with a counter that is present and invariant and a known
\* frequency, the time of a log record is Nanoseconds(ns) with
\* ns = (counter - epoch) * 1_000_000_000 / frequency_hz, and not the cycle
\* delta itself.
C10_Original ==
    \A c \in Ctx :
        ( /\ pc[c] = "held"
          /\ op[c].name = "log"
          /\ LOGGER.has_tsc
          /\ LOGGER.has_invariant_tsc
          /\ IsSome(LOGGER.tsc_frequency) ) =>
            op[c].time = Nanoseconds(NsOf(op[c].cur - LOGGER.tsc_start,
                                          Unwrap(LOGGER.tsc_frequency)))

\* a log record whose line is being written: its Writer exists
Stamped(c) == op[c].name = "log" /\ pc[c] = "held"

\* C11 as claimed: with a counter that is not invariant, or without a known
\* frequency, the time of a log record is Cycles(counter - epoch), the
\* cycles since the epoch of init and not the counter itself; without a
\* counter it is Undetermined.
C11_Original ==
    \A c \in Ctx :
        Stamped(c) =>
            /\ ~LOGGER.has_tsc => op[c].time = Undetermined
            /\ ( /\ LOGGER.has_tsc
                 /\ ~(LOGGER.has_invariant_tsc /\ IsSome(LOGGER.tsc_frequency)) ) =>
                    op[c].time = Cycles(op[c].cur - LOGGER.tsc_start)

\* the maximum level of a directive sequence, Off for the empty one
MaxOver(directives) ==
    IF directives = <<>> THEN Off
    ELSE CHOOSE m \in LevelFilters :
            /\ \E i \in 1..Len(directives) : directives[i].level = m
            /\ \A i \in 1..Len(directives) : directives[i].level <= m

\* C12: KLogger::filter returns the maximum level over the directives of
\* the sequence, Off for the empty sequence, and an init that returned Ok
\* has installed exactly this value as the max-level ceiling.
C12_MaxLevel ==
    /\ KLogger_filter(LOGGER) = MaxOver(LOGGER.filter)
    /\ (last.name = "init" /\ last.result = "Ok") =>
          max_level = MaxOver(LOGGER.filter)

\* C12 witness: init on "c=c,c" returned Ok with the one directive c at the
\* max level, and the ceiling is Trace.
C12_Witness ==
    /\ last.name = "init"
    /\ last.result = "Ok"
    /\ LOGGER.filter = <<Directive(Some(<<"c">>), Trace)>>
    /\ max_level = Trace

\* C14 as claimed: whatever the spec string, a first call of init returns
\* success; init fails only when a logger is installed already.
C14_Original ==
    (last.name = "init" /\ ~snap.installed) => last.result = "Ok"

CrLfs(bytes) == Cardinality({i \in 1..Len(bytes) : bytes[i].kind = "crlf"})

\* C16: the line lock is held by a context exactly while its Writer exists,
\* and the step in which a Writer ceases to exist writes one CR LF, the only
\* one and the last bytes of its line, while the lock is still the Writer's,
\* and leaves the lock free.
C16_DropEndsLine ==
    /\ [](\A c \in Ctx : (c \in Writers) <=> (SERIAL_LINE_MUTEX = c))
    /\ [][\A c \in Ctx :
            (c \in Writers /\ c \notin Writers') =>
                /\ SERIAL_LINE_MUTEX = c
                /\ last'.line = Append(line, [by |-> c, kind |-> "crlf"])
                /\ CrLfs(last'.line) = 1
                /\ SERIAL_LINE_MUTEX' = Free]_vars

\* C16 witness: the Writer of a log record was dropped: its line ended with
\* CR LF and the lock is free.
C16_Witness ==
    /\ last.name = "log"
    /\ last.result = "done"
    /\ Len(last.line) = 2
    /\ last.line[2] = [by |-> last.c, kind |-> "crlf"]
    /\ SERIAL_LINE_MUTEX = Free

\* C18 as claimed: the diagnostics of parse_args do not take the line lock,
\* so that init never waits for it: no context in init is ever at
\* SERIAL_LINE_MUTEX.lock() while another context holds a Writer.
C18_Original ==
    \A c \in Ctx : InInit(c) => ~(pc[c] = "spin" /\ SERIAL_LINE_MUTEX # Free)

\* C19 as claimed: a log record that passed the filter reads the counter
\* before it takes the line lock: when its Writer exists, on a machine with
\* a counter, its time has been computed.
C19_Original ==
    \A c \in Ctx :
        (op[c].name = "log" /\ pc[c] \in {"fmt", "held"} /\ LOGGER.has_tsc) =>
            op[c].time # Undetermined

\* C20 as claimed: after any calls of init, the max-level ceiling is an
\* upper bound of the installed directives: a level that they enable for
\* some target passes the ceiling.
C20_Original ==
    (log_state = "INITIALIZED" /\ \A c \in Ctx : ~InInit(c)) =>
        \A level \in Levels, target \in LogTargets :
            enabled(LOGGER.filter, level, target) => level <= max_level

\* C21 as claimed: the times of the log records appear on the channel in
\* non-decreasing order: a log record written after another one never
\* carries a smaller time.
C21_Original ==
    [][\A c \in Ctx :
          (/\ op[c].name = "log" /\ pc[c] = "fmt" /\ pc'[c] = "held"
           /\ IsSome(shown)) =>
              Unwrap(shown).val <= Unwrap(shown').val]_vars

----------------------------------------------------------------------------
(* The filter engine under test: directive vectors built by push, as the   *)
(* tests of lib.rs build them, and `enabled` applied to them.              *)
MaxDirs == 3
TestNames == {None, Some(<<"c">>), Some(<<"c", "m">>), Some(<<"m">>)}
TestLevels == {Off, Info, Debug}
TestTargets == {<<"c">>, <<"c", "m">>, <<"m">>, <<"m", "c">>}

EInit ==
    /\ LOGGER = LOGGER0
    /\ ProgIdle
    /\ probe = NoProbe

Push(name, level) ==
    /\ Len(LOGGER.filter) < MaxDirs
    /\ LOGGER' = [LOGGER EXCEPT !.filter = Append(@, Directive(name, level))]
    /\ probe' = NoProbe
    /\ UNCHANGED progvars

CallEnabled(level, target) ==
    /\ probe' = [fn |-> "enabled", level |-> level, target |-> target,
                 result |-> enabled(LOGGER.filter, level, target)]
    /\ UNCHANGED <<LOGGER, progvars>>

ENext ==
    \/ \E name \in TestNames, level \in TestLevels : Push(name, level)
    \/ \E level \in Levels, target \in TestTargets : CallEnabled(level, target)

SpecEnabled == EInit /\ [][ENext]_vars

----------------------------------------------------------------------------
(* parse_args under test: one call on a filter that earlier calls filled   *)
MaxSpecLen == 5
ParseTokens == {"c", "=", ",", "/", " ", "info", LONG}

RECURSIVE SeqsUpTo(_, _)
SeqsUpTo(S, n) ==
    IF n = 0 THEN {<<>>}
    ELSE LET shorter == SeqsUpTo(S, n - 1)
         IN shorter \cup {Append(s, x) : s \in {t \in shorter : Len(t) = n - 1}, x \in S}

\* "c,c=info,c,c,c,c,c,c,c=": nine well-formed entries
OverflowSpec ==
    <<"c", ",", "c", "=", "info", ",", "c", ",", "c", ",", "c", ",", "c", ",",
      "c", ",", "c", ",", "c", "=">>

ParseSpecs == SeqsUpTo(ParseTokens, MaxSpecLen) \cup {OverflowSpec}

Prefilled(k) == [i \in 1..k |-> Directive(Some(<<"m">>), Warn)]

\* the sequence before the call: empty, one short of full, and full
PrefillSizes == {0, FilterCap - 1, FilterCap}

PInit ==
    /\ \E k \in PrefillSizes : LOGGER = [LOGGER0 EXCEPT !.filter = Prefilled(k)]
    /\ ProgIdle
    /\ probe = NoProbe

CallParseArgs(spec) ==
    /\ LET r == parse_args(LOGGER.filter, spec)
       IN /\ LOGGER' = [LOGGER EXCEPT !.filter = r.filter]
          /\ probe' = [fn |-> "parse_args", spec |-> spec, pre |-> LOGGER.filter,
                       diags |-> r.diags, panic |-> r.panic]
    /\ UNCHANGED progvars

PNext ==
    /\ probe.fn = "none"
    /\ \E spec \in ParseSpecs : CallParseArgs(spec)

SpecParse == PInit /\ [][PNext]_vars

----------------------------------------------------------------------------
(* Claims on the filter engine, checked under SpecEnabled *)

\* name is None or a prefix of target, stated on positions
Covers(d, target) ==
    \/ d.name = None
    \/ \E k \in 0..Len(target) :
          /\ Len(d.name[1]) = k
          /\ \A i \in 1..k : d.name[1][i] = target[i]

EnabledCalled == probe.fn = "enabled"

\* C3: default deny.  A call of enabled on a directive sequence none of whose
\* directives has name None or a name that is a prefix of the target returns
\* false, whatever the level; so it does on the empty sequence.
C3_DefaultDeny ==
    (EnabledCalled /\ \A i \in 1..Len(LOGGER.filter) :
                         ~Covers(LOGGER.filter[i], probe.target))
        => probe.result = FALSE

\* C3 witness: a call on a non-empty sequence none of whose directives covers
\* the target, at the most permissive level of a directive, returned false.
C3_Witness ==
    /\ EnabledCalled
    /\ Len(LOGGER.filter) = 2
    /\ \A i \in 1..2 : ~Covers(LOGGER.filter[i], probe.target)
    /\ probe.level <= LOGGER.filter[1].level
    /\ probe.result = FALSE

\* C4 as claimed: in a sequence that contains a global fallback directive
\* (name None, level L; here the only one of the sequence), enabled equals
\* (level <= L) for every target.
C4_Original ==
    EnabledCalled =>
        \A i \in 1..Len(LOGGER.filter) :
            (/\ LOGGER.filter[i].name = None
             /\ \A j \in 1..Len(LOGGER.filter) :
                    j # i => LOGGER.filter[j].name # None)
                => probe.result = (probe.level <= LOGGER.filter[i].level)

\* C4 as amended: a global fallback directive (name None, level L) makes
\* enabled equal (level <= L) for every target that no directive declared
\* after it covers; so for every target when it is the last directive.
C4_GlobalFallback ==
    EnabledCalled =>
        \A i \in 1..Len(LOGGER.filter) :
            (/\ LOGGER.filter[i].name = None
             /\ \A j \in (i + 1)..Len(LOGGER.filter) :
                    ~Covers(LOGGER.filter[j], probe.target))
                => probe.result = (probe.level <= LOGGER.filter[i].level)

\* C4 witness: a named directive that covers the target and would deny, then
\* the fallback at Info declared last: Info is enabled, by the fallback.
C4_Witness ==
    /\ EnabledCalled
    /\ Len(LOGGER.filter) = 2
    /\ LOGGER.filter[1] = Directive(Some(<<"c">>), Off)
    /\ LOGGER.filter[2] = Directive(None, Info)
    /\ probe.target = <<"c">>
    /\ probe.level = Info
    /\ probe.result = TRUE

\* C5: the covering directive declared last wins.  The result of enabled is
\* (level <= d.level) for the highest-index directive d that covers the
\* target; covering directives at lower indexes have no influence.
C5_LastMatchWins ==
    EnabledCalled =>
        \A i \in 1..Len(LOGGER.filter) :
            (/\ Covers(LOGGER.filter[i], probe.target)
             /\ \A j \in (i + 1)..Len(LOGGER.filter) :
                    ~Covers(LOGGER.filter[j], probe.target))
                => probe.result = (probe.level <= LOGGER.filter[i].level)

\* C5 witness: "c"@Info then "c::m"@Debug; Debug asked for a target under
\* "c::m" is enabled although the earlier "c"@Info covers it and denies.
C5_Witness ==
    /\ EnabledCalled
    /\ LOGGER.filter = <<Directive(Some(<<"c">>), Info),
                         Directive(Some(<<"c", "m">>), Debug)>>
    /\ probe.target = <<"c", "m">>
    /\ probe.level = Debug
    /\ probe.result = TRUE

----------------------------------------------------------------------------
(* Claims on parse_args, checked under SpecParse.  The entries of a spec   *)
(* and the directive each stands for are stated here on positions of the   *)
(* entry, not by the parser's splitting.                                   *)

Count(s, ch) == Cardinality({i \in 1..Len(s) : s[i] = ch})
Blank(s) == \A i \in 1..Len(s) : s[i] = " "
\* s without its leading and trailing blanks (s not blank)
Strip(s) ==
    LET first == CHOOSE i \in 1..Len(s) :
                     s[i] # " " /\ \A j \in 1..(i - 1) : s[j] = " "
        lastx == CHOOSE i \in 1..Len(s) :
                    s[i] # " " /\ \A j \in (i + 1)..Len(s) : s[j] = " "
    IN SubSeq(s, first, lastx)
KnownLevel(s) == Len(s) = 1 /\ s[1] \in LevelWords
EqAt(e) == CHOOSE i \in 1..Len(e) : e[i] = "="
TargetOf(e) == SubSeq(e, 1, EqAt(e) - 1)
LevelOf(e) == SubSeq(e, EqAt(e) + 1, Len(e))

\* target | target= | target=level with a known level (blanks around the
\* level do not count)
WellFormed(e) ==
    /\ e # <<>>
    /\ \/ Count(e, "=") = 0
       \/ /\ Count(e, "=") = 1
          /\ Blank(LevelOf(e)) \/ KnownLevel(Strip(LevelOf(e)))

Malformed(e) == e # <<>> /\ ~WellFormed(e)

\* the directive a well-formed entry stands for
Expected(e) ==
    IF Count(e, "=") = 0
    THEN IF KnownLevel(e) THEN [name |-> None, level |-> LevelOfWord(e[1])]
         ELSE [name |-> <<e>>, level |-> Trace]
    ELSE IF Blank(LevelOf(e)) THEN [name |-> <<TargetOf(e)>>, level |-> Trace]
         ELSE [name |-> <<TargetOf(e)>>, level |-> LevelOfWord(Strip(LevelOf(e))[1])]

RECURSIVE ExpectedOf(_)
ExpectedOf(entries) ==
    IF entries = <<>> THEN <<>>
    ELSE IF WellFormed(Head(entries))
         THEN <<Expected(Head(entries))>> \o ExpectedOf(Tail(entries))
         ELSE ExpectedOf(Tail(entries))

RECURSIVE DropMalformed(_)
DropMalformed(entries) ==
    IF entries = <<>> THEN <<>>
    ELSE IF Malformed(Head(entries)) THEN DropMalformed(Tail(entries))
         ELSE <<Head(entries)>> \o DropMalformed(Tail(entries))

Take(s, n) == IF Len(s) <= n THEN s ELSE SubSeq(s, 1, n)

\* the directives before the first one whose target is longer than 64 bytes
BeforeLong(ds) ==
    IF \E i \in 1..Len(ds) : ds[i].name # None /\ ByteLen(ds[i].name[1]) > NameCap
    THEN SubSeq(ds, 1, (CHOOSE i \in 1..Len(ds) :
                          /\ ds[i].name # None /\ ByteLen(ds[i].name[1]) > NameCap
                          /\ \A j \in 1..(i - 1) :
                                ds[j].name = None \/ ByteLen(ds[j].name[1]) <= NameCap) - 1)
    ELSE ds

ParseCalled == probe.fn = "parse_args"
CommaEntries(spec) == Split(spec, ",")

\* C6 as claimed: on a spec without '/', parse_args appends exactly one
\* directive per well-formed non-empty entry, in entry order: (None, level)
\* for a bare level, (token, max) for another bare token, (target, max) for
\* "target=", (target, level) for "target=level"; empty segments add nothing.
\* (Stated for specs whose targets all fit the 64 bytes of a name.)
C6_Original ==
    (ParseCalled /\ Count(probe.spec, "/") = 0 /\ Count(probe.spec, LONG) = 0) =>
        /\ ~probe.panic
        /\ LOGGER.filter = probe.pre \o ExpectedOf(CommaEntries(probe.spec))

\* C6 as amended: the same, for as long as the sequence holds fewer than 8
\* directives (a well-formed entry that finds it full adds nothing) and up to
\* the first well-formed entry whose target is longer than 64 bytes, at
\* which parse_args panics.
C6_ParseAppends ==
    (ParseCalled /\ Count(probe.spec, "/") = 0) =>
        LET ds == ExpectedOf(CommaEntries(probe.spec))
        IN /\ probe.panic = (BeforeLong(ds) # ds)
           /\ LOGGER.filter = Take(probe.pre \o BeforeLong(ds), FilterCap)

\* C6 witness: "info,c=," on an empty sequence gave the global fallback at
\* Info, then "c" at the max level: one directive per entry, in order, and
\* none for the empty last segment.
C6_Witness ==
    /\ ParseCalled
    /\ probe.pre = <<>>
    /\ probe.spec = <<"info", ",", "c", "=", ",">>
    /\ LOGGER.filter = <<Directive(None, Info), Directive(Some(<<"c">>), Trace)>>

RECURSIVE Join(_)
Join(entries) ==
    IF Len(entries) <= 1 THEN (IF entries = <<>> THEN <<>> ELSE entries[1])
    ELSE entries[1] \o <<",">> \o Join(Tail(entries))

HasMalformed(spec) ==
    \E i \in 1..Len(CommaEntries(spec)) : Malformed(CommaEntries(spec)[i])

NumMalformed(spec) ==
    Cardinality({i \in 1..Len(CommaEntries(spec)) : Malformed(CommaEntries(spec)[i])})

\* C7 as claimed: a malformed entry (two or more '=', or an unknown level)
\* is dropped on its own; every well-formed entry before and after it in the
\* same spec still adds its directive.
\* (Stated for specs whose targets all fit the 64 bytes of a name.)
C7_Original ==
    (/\ ParseCalled /\ Count(probe.spec, "/") = 0 /\ Count(probe.spec, LONG) = 0
     /\ HasMalformed(probe.spec)) =>
        /\ ~probe.panic
        /\ LOGGER.filter = probe.pre \o ExpectedOf(CommaEntries(probe.spec))

\* C7 as amended: a malformed entry is dropped on its own: parse_args adds
\* no directive for it (only a diagnostic), and ends with the same directive
\* sequence (and the same panic, if any) as on the spec without its malformed
\* entries; the
\* well-formed entries before and after it add their directives as far as
\* the capacity of 8 allows.
C7_MalformedDropped ==
    (ParseCalled /\ Count(probe.spec, "/") = 0 /\ HasMalformed(probe.spec)) =>
        LET r == parse_args(probe.pre, Join(DropMalformed(CommaEntries(probe.spec))))
        IN /\ LOGGER.filter = r.filter
           /\ probe.panic = r.panic
           /\ ~probe.panic => probe.diags = r.diags + NumMalformed(probe.spec)

\* C7 witness: "c=c,c" on an empty sequence: the entry with the unknown level
\* "c" is dropped with a diagnostic and the entry after it is added.
C7_Witness ==
    /\ ParseCalled
    /\ probe.pre = <<>>
    /\ probe.spec = <<"c", "=", "c", ",", "c">>
    /\ probe.diags = 1
    /\ LOGGER.filter = <<Directive(Some(<<"c">>), Trace)>>

\* the well-formed entries of a spec that found the sequence full
Overflow(pre, spec) ==
    LET n == Len(pre) + Len(ExpectedOf(CommaEntries(spec)))
    IN IF n > FilterCap THEN n - FilterCap ELSE 0

NameLen(d) == IF d.name = None THEN 0 ELSE Len(d.name[1])
Matching(directives, target) ==
    {i \in 1..Len(directives) : Covers(directives[i], target)}
LastOf(S) == CHOOSE i \in S : \A j \in S : j <= i
ParseTargets == {<<"c">>, <<"c", "c">>}

\* C15 as claimed: in the directive sequence that parse_args builds from a
\* spec, for every target, the last directive that matches the target is
\* the most specific one: no other matching directive has a longer name.
\* (Stated for specs that are lists of plain target names.)
C15_Original ==
    (/\ ParseCalled /\ probe.pre = <<>>
     /\ \A k \in 1..Len(probe.spec) : probe.spec[k] \in {"c", ","}) =>
        \A target \in ParseTargets :
            LET M == Matching(LOGGER.filter, target)
            IN M # {} =>
                 \A i \in M : NameLen(LOGGER.filter[i]) <=
                               NameLen(LOGGER.filter[LastOf(M)])

\* C8: a spec with two or more '/' adds no directive at all, whatever stands
\* before, between or after the slashes: the sequence is left as it was
\* (empty, on a first call), and parse_args returns.
C8_TwoSlashesAddNothing ==
    (ParseCalled /\ Count(probe.spec, "/") >= 2) =>
        /\ LOGGER.filter = probe.pre
        /\ ~probe.panic
        /\ probe.diags = 1

\* C8 witness: "c/c/c" on an empty sequence left it empty.
C8_Witness ==
    /\ ParseCalled
    /\ probe.spec = <<"c", "/", "c", "/", "c">>
    /\ probe.pre = <<>>
    /\ LOGGER.filter = <<>>

\* C9 as claimed: a spec with exactly one '/' is valid: parse_args produces
\* the directives of the part before the '/', and ignores the part after it.
C9_Original ==
    (ParseCalled /\ Count(probe.spec, "/") = 1) =>
        LET slash == CHOOSE i \in 1..Len(probe.spec) : probe.spec[i] = "/"
            r == parse_args(probe.pre, SubSeq(probe.spec, 1, slash - 1))
        IN /\ LOGGER.filter = r.filter
           /\ probe.panic = r.panic

=============================================================================
